---- MODULE Spec2Model ----
(***************************************************************************)
(* The ontology layer of NeuroStack: OntologyManager (manager.py) on top   *)
(* of NeuroStackGraphAdapter (graph_adapter.py), OWLLoader (loader.py) and *)
(* ExcelLoader (excel_loader.py), and the tool registry the ontology tools *)
(* live in (tools/base.py).  The adapter wraps HealthcareGraph, whose      *)
(* file ("ontology 1/ontology/graph.py") is not among the sources; the     *)
(* HG_* definitions model it from the design document.                     *)
(*                                                                         *)
(* Python strings whose characters matter (names, OWL class names) are     *)
(* tuples of one-character strings; a UUID is a natural number, uuid4()    *)
(* hands out the next unused one; a dictionary is the sequence of its      *)
(* (key, value) pairs in insertion order.                                  *)
(***************************************************************************)
EXTENDS Integers, Sequences, FiniteSets, TLC

\* ------------------------------------------------------------------ bounds
MaxUuid == 5
MaxRecs == 2

VARIABLES
    adapter,             \* whether _graph_adapter has been created
    entities,            \* the graph's entity store: id -> entity
    relationships,       \* the graph's relationship store: id -> relationship
    uuid_next,           \* the next value uuid4() returns
    loaded_ontologies,   \* _loaded_ontologies: name -> graph_data
    loaded_excel_files,  \* _loaded_excel_files: name -> annotations
    tools,               \* ToolRegistry._tools: name -> tool
    issued,              \* history: the add_entity and add_relationship calls that returned
    last                 \* history: the last call, its arguments, the state before it, its outcome

vars == <<adapter, entities, relationships, uuid_next,
          loaded_ontologies, loaded_excel_files, tools, issued, last>>

\* ------------------------------------------------------------ Python values
EmptyDict == [k \in {} |-> ""]

Put(f, k, v) == [x \in DOMAIN f \cup {k} |-> IF x = k THEN v ELSE f[x]]


\* the Python string a tuple of characters spells
RECURSIVE Str(_)
Str(t) == IF t = <<>> THEN "" ELSE Head(t) \o Str(Tail(t))

\* str.lower() on the alphabet the model uses
LowerChar(c) ==
    CASE c = "A" -> "a" [] c = "B" -> "b" [] c = "C" -> "c" [] c = "D" -> "d"
      [] c = "E" -> "e" [] c = "F" -> "f" [] c = "G" -> "g" [] c = "H" -> "h"
      [] c = "I" -> "i" [] c = "J" -> "j" [] c = "K" -> "k" [] c = "L" -> "l"
      [] c = "M" -> "m" [] c = "N" -> "n" [] c = "O" -> "o" [] c = "P" -> "p"
      [] c = "Q" -> "q" [] c = "R" -> "r" [] c = "S" -> "s" [] c = "T" -> "t"
      [] c = "U" -> "u" [] c = "V" -> "v" [] c = "W" -> "w" [] c = "X" -> "x"
      [] c = "Y" -> "y" [] c = "Z" -> "z"
      [] OTHER -> c

Lower(s) == [i \in 1..Len(s) |-> LowerChar(s[i])]

\* Python's `sub in s` for strings
Contains(sub, s) ==
    \E i \in 0..(Len(s) - Len(sub)) :
        \A j \in 1..Len(sub) : s[i + j] = sub[j]

\* str(uuid): the canonical text of a UUID; other dictionary keys are free text
Canon(n) == [form |-> "canonical", n |-> n]
TextKey(n) == [form |-> "text", n |-> n]

\* uuid.UUID(s): the UUID a string spells, ValueError for any other string
UUIDParse(k) ==
    IF k.form = "canonical" THEN [ok |-> TRUE, id |-> k.n]
    ELSE [ok |-> FALSE, id |-> 0]

\* ------------------------------------------------- HealthcareGraph (graph.py)
EntityType == {"Patient", "Disease", "Treatment", "Doctor", "Facility", "Entity"}

RelationshipType == {"hasDisease", "receivesTreatment", "treatsDisease"}

\* a graph with the uuid4 source it draws from
World(es, rs, nxt) == [entities |-> es, relationships |-> rs, uuid_next |-> nxt]

MedicalEntity(entity_type, name, properties) ==
    [entity_type |-> entity_type, name |-> name, properties |-> properties]

Relationship(source_id, target_id, relationship_type) ==
    [source_id |-> source_id, target_id |-> target_id,
     relationship_type |-> relationship_type]

\* the result of a call: the world after it, whether it returned, the exception
\* class when it did not, and the id it returned
Returned(w, id) == [w |-> w, ok |-> TRUE, err |-> "", id |-> id]
Raised(w, err) == [w |-> w, ok |-> FALSE, err |-> err, id |-> 0]

\* HealthcareGraph.add_entity: the entity carries the id minted when it was built
HG_add_entity(w, e) ==
    Returned([w EXCEPT !.entities = Put(w.entities, w.uuid_next, e),
                       !.uuid_next = w.uuid_next + 1],
             w.uuid_next)

HG_get_entity(w, entity_id) ==
    IF entity_id \in DOMAIN w.entities
    THEN [found |-> TRUE, id |-> entity_id, entity |-> w.entities[entity_id]]
    ELSE [found |-> FALSE, id |-> entity_id, entity |-> MedicalEntity("", <<>>, EmptyDict)]

\* HealthcareGraph.add_relationship: fails closed on an absent endpoint
HG_add_relationship(w, source_id, target_id, rel_type) ==
    IF source_id \notin DOMAIN w.entities \/ target_id \notin DOMAIN w.entities
    THEN Raised(w, "UnknownEntity")
    ELSE Returned([w EXCEPT !.relationships =
                                Put(w.relationships, w.uuid_next,
                                    Relationship(source_id, target_id, rel_type)),
                            !.uuid_next = w.uuid_next + 1],
                  w.uuid_next)

\* HealthcareGraph.get_relationships: the ids of the matching edges
HG_get_relationships(w, entity_id, rel_type, direction) ==
    {r \in DOMAIN w.relationships :
        /\ \/ direction \in {"outgoing", "both"} /\ w.relationships[r].source_id = entity_id
           \/ direction \in {"incoming", "both"} /\ w.relationships[r].target_id = entity_id
        /\ rel_type = "" \/ w.relationships[r].relationship_type = rel_type}

\* the ids of a store in the order they were inserted (ids are handed out ascending)
RECURSIVE InOrder(_)
InOrder(S) ==
    IF S = {} THEN <<>>
    ELSE LET m == CHOOSE x \in S : \A y \in S : x <= y
         IN  <<m>> \o InOrder(S \ {m})

\* a filter pair against an entity: the name, or a key of its properties
FilterMatches(e, f) ==
    IF f.key = "name" THEN e.name = f.value
    ELSE f.key \in DOMAIN e.properties /\ e.properties[f.key] = f.value

\* HealthcareGraph.find_entities: the ids of the type (no type: all), every filter
\* matching, in insertion order; entity_type "" is None
HG_find_entities(w, entity_type, filters) ==
    InOrder({id \in DOMAIN w.entities :
                /\ entity_type = "" \/ w.entities[id].entity_type = entity_type
                /\ \A i \in 1..Len(filters) : FilterMatches(w.entities[id], filters[i])})

\* HealthcareGraph.get_neighbors: per matching edge, the entity at its other end
HG_get_neighbors(w, entity_id, rel_type, direction) ==
    LET rs == InOrder(HG_get_relationships(w, entity_id, rel_type, direction))
        other(r) == IF w.relationships[r].source_id = entity_id
                    THEN w.relationships[r].target_id
                    ELSE w.relationships[r].source_id
    IN  [i \in 1..Len(rs) |-> other(rs[i])]

\* HealthcareGraph.get_patient_medical_info: the patient, the targets of its
\* outgoing hasDisease edges and those of its outgoing receivesTreatment edges
HG_get_patient_medical_info(w, patient_id) ==
    IF patient_id \notin DOMAIN w.entities
       \/ w.entities[patient_id].entity_type # "Patient"
    THEN [ok |-> FALSE, err |-> "UnknownEntity"]
    ELSE [ok |-> TRUE, err |-> "",
          patient |-> patient_id,
          diseases |-> HG_get_neighbors(w, patient_id, "hasDisease", "outgoing"),
          treatments |-> HG_get_neighbors(w, patient_id, "receivesTreatment", "outgoing")]

\* HealthcareGraph.check_integrity: the edges with an end that is no stored entity
HG_check_integrity(w) ==
    LET dangling == {r \in DOMAIN w.relationships :
                        \/ w.relationships[r].source_id \notin DOMAIN w.entities
                        \/ w.relationships[r].target_id \notin DOMAIN w.entities}
    IN  [valid |-> dangling = {}, dangling_count |-> Cardinality(dangling),
         dangling |-> {Canon(r) : r \in dangling}]


\* HealthcareGraph.get_statistics: the sizes of the two stores and the number of
\* entities of each type that has any
HG_get_statistics(w) ==
    LET types == {w.entities[e].entity_type : e \in DOMAIN w.entities}
    IN  [total_entities |-> Cardinality(DOMAIN w.entities),
         total_relationships |-> Cardinality(DOMAIN w.relationships),
         entities_by_type |->
            [t \in types |->
                Cardinality({e \in DOMAIN w.entities : w.entities[e].entity_type = t})]]

\* HealthcareGraph.export_graph: the stores as an ingestion dictionary, with the
\* computed statistics
HG_export_graph(w) ==
    LET es == InOrder(DOMAIN w.entities)
        rs == InOrder(DOMAIN w.relationships)
    IN  [entities |->
            [i \in 1..Len(es) |->
                [key |-> Canon(es[i]),
                 data |-> [type |-> w.entities[es[i]].entity_type,
                           name |-> w.entities[es[i]].name,
                           properties |-> w.entities[es[i]].properties]]],
         relationships |->
            [i \in 1..Len(rs) |->
                [key |-> Canon(rs[i]),
                 data |-> [source_id |-> Canon(w.relationships[rs[i]].source_id),
                           target_id |-> Canon(w.relationships[rs[i]].target_id),
                           type |-> w.relationships[rs[i]].relationship_type,
                           properties |-> EmptyDict]]],
         statistics |-> HG_get_statistics(w)]

\* --------------------------------------- NeuroStackGraphAdapter (graph_adapter.py)
\* variant of add_entity that stores an unknown type string as the generic type
AdapterAddEntityGenericFallback(w, entity_type, name, properties) ==
    IF entity_type \in EntityType
    THEN HG_add_entity(w, MedicalEntity(entity_type, name, properties))
    ELSE HG_add_entity(w, MedicalEntity("Entity", name, properties))

\* variant of add_entity that does not hand the keyword properties on
AdapterAddEntityNoProperties(w, entity_type, name, properties) ==
    IF entity_type \in EntityType
    THEN HG_add_entity(w, MedicalEntity(entity_type, name, EmptyDict))
    ELSE Raised(w, "ValueError")

AdapterAddEntity(w, entity_type, name, properties) ==
    IF entity_type \in {"Patient", "Disease", "Treatment"}
    THEN HG_add_entity(w, MedicalEntity(entity_type, name, properties))
    ELSE IF entity_type \in EntityType
         THEN HG_add_entity(w, MedicalEntity(entity_type, name, properties))
         ELSE Raised(w, "ValueError")

entity_to_dict(id, e) ==
    [id |-> Canon(id), type |-> e.entity_type, name |-> e.name,
     properties |-> e.properties]

NoneValue == [none |-> TRUE]

AdapterGetEntity(w, entity_id) ==
    LET got == HG_get_entity(w, entity_id)
    IN  IF got.found THEN entity_to_dict(got.id, got.entity) ELSE NoneValue

\* variant of add_relationship that answers a repeated triple with the stored edge
AdapterAddRelationshipOncePerTriple(w, source_id, target_id, relationship_type) ==
    LET same == {r \in DOMAIN w.relationships :
                    w.relationships[r] = Relationship(source_id, target_id,
                                                      relationship_type)}
    IN  IF relationship_type \notin RelationshipType
        THEN Raised(w, "ValueError")
        ELSE IF same # {}
        THEN Returned(w, CHOOSE r \in same : TRUE)
        ELSE HG_add_relationship(w, source_id, target_id, relationship_type)

\* variant of add_relationship that stores the edge once its target is found
AdapterAddRelationshipTargetOnly(w, source_id, target_id, relationship_type) ==
    IF relationship_type \notin RelationshipType
    THEN Raised(w, "ValueError")
    ELSE IF target_id \notin DOMAIN w.entities
    THEN Raised(w, "UnknownEntity")
    ELSE Returned([w EXCEPT !.relationships =
                                Put(w.relationships, w.uuid_next,
                                    Relationship(source_id, target_id, relationship_type)),
                            !.uuid_next = w.uuid_next + 1],
                  w.uuid_next)

\* variant of add_relationship that stores the edge itself, endpoints unlooked at
AdapterAddRelationshipUnchecked(w, source_id, target_id, relationship_type) ==
    IF relationship_type \notin RelationshipType
    THEN Raised(w, "ValueError")
    ELSE Returned([w EXCEPT !.relationships =
                                Put(w.relationships, w.uuid_next,
                                    Relationship(source_id, target_id, relationship_type)),
                            !.uuid_next = w.uuid_next + 1],
                  w.uuid_next)

AdapterAddRelationship(w, source_id, target_id, relationship_type) ==
    IF relationship_type \notin RelationshipType
    THEN Raised(w, "ValueError")
    ELSE HG_add_relationship(w, source_id, target_id, relationship_type)

relationship_to_dict(id, r) ==
    [id |-> Canon(id), source_id |-> Canon(r.source_id),
     target_id |-> Canon(r.target_id), type |-> r.relationship_type]

\* the list get_relationships returns, as the set of its elements; "" is no type filter
AdapterGetRelationships(w, entity_id, relationship_type, direction) ==
    IF relationship_type # "" /\ relationship_type \notin RelationshipType
    THEN [ok |-> FALSE, rels |-> {}]
    ELSE [ok |-> TRUE,
          rels |-> {relationship_to_dict(r, w.relationships[r]) :
                      r \in HG_get_relationships(w, entity_id, relationship_type, direction)}]

\* variant of find_entities that does not hand the keyword filters on
AdapterFindEntitiesNoFilters(w, entity_type, filters) ==
    IF entity_type # "" /\ entity_type \notin EntityType
    THEN [ok |-> FALSE, err |-> "ValueError", result |-> <<>>]
    ELSE LET ids == HG_find_entities(w, entity_type, <<>>)
         IN  [ok |-> TRUE, err |-> "",
              result |-> [i \in 1..Len(ids) |-> entity_to_dict(ids[i], w.entities[ids[i]])]]

\* find_entities: EntityType(entity_type) when a type is given, then the graph's search
AdapterFindEntities(w, entity_type, filters) ==
    IF entity_type # "" /\ entity_type \notin EntityType
    THEN [ok |-> FALSE, err |-> "ValueError", result |-> <<>>]
    ELSE LET ids == HG_find_entities(w, entity_type, filters)
         IN  [ok |-> TRUE, err |-> "",
              result |-> [i \in 1..Len(ids) |-> entity_to_dict(ids[i], w.entities[ids[i]])]]

\* variant of get_relationships that looks at both ends whatever the direction
AdapterGetRelationshipListBothWays(w, entity_id, relationship_type, direction) ==
    IF relationship_type # "" /\ relationship_type \notin RelationshipType
    THEN [ok |-> FALSE, err |-> "ValueError", result |-> <<>>]
    ELSE LET rs == InOrder(HG_get_relationships(w, entity_id, relationship_type, "both"))
         IN  [ok |-> TRUE, err |-> "",
              result |-> [i \in 1..Len(rs) |->
                             relationship_to_dict(rs[i], w.relationships[rs[i]])]]

\* get_relationships as the list it returns
AdapterGetRelationshipList(w, entity_id, relationship_type, direction) ==
    IF relationship_type # "" /\ relationship_type \notin RelationshipType
    THEN [ok |-> FALSE, err |-> "ValueError", result |-> <<>>]
    ELSE LET rs == InOrder(HG_get_relationships(w, entity_id, relationship_type, direction))
         IN  [ok |-> TRUE, err |-> "",
              result |-> [i \in 1..Len(rs) |->
                             relationship_to_dict(rs[i], w.relationships[rs[i]])]]

AdapterGetNeighbors(w, entity_id, relationship_type, direction) ==
    IF relationship_type # "" /\ relationship_type \notin RelationshipType
    THEN [ok |-> FALSE, err |-> "ValueError", result |-> <<>>]
    ELSE LET ns == HG_get_neighbors(w, entity_id, relationship_type, direction)
         IN  [ok |-> TRUE, err |-> "",
              result |-> [i \in 1..Len(ns) |-> entity_to_dict(ns[i], w.entities[ns[i]])]]

\* variant of query_patient_info that looks the entity up itself, whatever its type
AdapterQueryPatientInfoAnyType(w, patient_id) ==
    LET Dicts(ids) == [i \in 1..Len(ids) |-> entity_to_dict(ids[i], w.entities[ids[i]])]
    IN  IF patient_id \notin DOMAIN w.entities
        THEN [ok |-> FALSE, err |-> "UnknownEntity"]
        ELSE [ok |-> TRUE, err |-> "",
              result |-> [patient |-> entity_to_dict(patient_id, w.entities[patient_id]),
                          diseases |-> Dicts(HG_get_neighbors(w, patient_id,
                                                              "hasDisease", "outgoing")),
                          treatments |-> Dicts(HG_get_neighbors(w, patient_id,
                                                                "receivesTreatment",
                                                                "outgoing"))]]

\* variant of query_patient_info with the two lists under each other's key
AdapterQueryPatientInfoSwapped(w, patient_id) ==
    LET info == HG_get_patient_medical_info(w, patient_id)
        Dicts(ids) == [i \in 1..Len(ids) |-> entity_to_dict(ids[i], w.entities[ids[i]])]
    IN  IF ~info.ok THEN [ok |-> FALSE, err |-> info.err]
        ELSE [ok |-> TRUE, err |-> "",
              result |-> [patient |-> entity_to_dict(info.patient, w.entities[info.patient]),
                          diseases |-> Dicts(info.treatments),
                          treatments |-> Dicts(info.diseases)]]

AdapterQueryPatientInfo(w, patient_id) ==
    LET info == HG_get_patient_medical_info(w, patient_id)
        Dicts(ids) == [i \in 1..Len(ids) |-> entity_to_dict(ids[i], w.entities[ids[i]])]
    IN  IF ~info.ok THEN [ok |-> FALSE, err |-> info.err]
        ELSE [ok |-> TRUE, err |-> "",
              result |-> [patient |-> entity_to_dict(info.patient, w.entities[info.patient]),
                          diseases |-> Dicts(info.diseases),
                          treatments |-> Dicts(info.treatments)]]

AdapterCheckIntegrity(w) == HG_check_integrity(w)

\* variant of export_graph that leaves the relationships out
AdapterExportGraphEntitiesOnly(w) ==
    [HG_export_graph(w) EXCEPT !.relationships = <<>>]

\* export_graph: the graph's own export
AdapterExportGraph(w) == HG_export_graph(w)

\* ------------------------------------------------------- OWLLoader (loader.py)
\* the keyword lists of _infer_entity_type, in the order they are tried
InferRules ==
    << [words |-> {<<"p","a","t","i","e","n","t">>}, type |-> "Patient"],
       [words |-> {<<"d","i","s","e","a","s","e">>,
                   <<"d","i","a","g","n","o","s","i","s">>}, type |-> "Disease"],
       [words |-> {<<"t","r","e","a","t","m","e","n","t">>,
                   <<"t","h","e","r","a","p","y">>,
                   <<"m","e","d","i","c","a","t","i","o","n">>}, type |-> "Treatment"],
       [words |-> {<<"d","o","c","t","o","r">>,
                   <<"p","h","y","s","i","c","i","a","n">>}, type |-> "Doctor"],
       [words |-> {<<"f","a","c","i","l","i","t","y">>,
                   <<"h","o","s","p","i","t","a","l">>}, type |-> "Facility"] >>

RECURSIVE InferFrom(_, _)
InferFrom(class_name_lower, i) ==
    IF i > Len(InferRules) THEN "Entity"
    ELSE IF \E kw \in InferRules[i].words : Contains(kw, class_name_lower)
         THEN InferRules[i].type
         ELSE InferFrom(class_name_lower, i + 1)

\* variant that takes the class name itself for the type
infer_entity_type_as_named(class_name) == Str(class_name)

infer_entity_type(class_name) == InferFrom(Lower(class_name), 1)

\* _map_property_to_relationship_type: three known spellings, anything else as it is
map_property_to_relationship_type(prop_name) ==
    LET prop_lower == Lower(prop_name)
    IN  IF \/ Contains(<<"h","a","s","d","i","s","e","a","s","e">>, prop_lower)
           \/ Contains(<<"h","a","s","_","d","i","s","e","a","s","e">>, prop_lower)
        THEN "hasDisease"
        ELSE IF \/ Contains(<<"r","e","c","e","i","v","e","s","t","r","e","a","t","m","e","n","t">>, prop_lower)
                \/ Contains(<<"r","e","c","e","i","v","e","s","_","t","r","e","a","t","m","e","n","t">>, prop_lower)
        THEN "receivesTreatment"
        ELSE IF \/ Contains(<<"t","r","e","a","t","s","d","i","s","e","a","s","e">>, prop_lower)
                \/ Contains(<<"t","r","e","a","t","s","_","d","i","s","e","a","s","e">>, prop_lower)
        THEN "treatsDisease"
        ELSE Str(prop_name)

\* _extract_classes: one entity record per owl:Class, keyed by a new uuid4
extract_classes(classes, nxt) ==
    [i \in 1..Len(classes) |->
        [key |-> Canon(nxt + i - 1),
         data |-> [type |-> infer_entity_type(classes[i]), name |-> classes[i],
                   properties |-> [owl_uri |-> Str(classes[i]), is_class |-> TRUE]]]]

\* load_owl_file: `file` is the parsed document, its classes and its individuals
load_owl_file(file, nxt) ==
    [entities |-> extract_classes(file.classes, nxt),
     individuals |-> file.individuals]

\* the (individual, property, target) triples in the order convert_to_graph_data visits them
RECURSIVE TargetsOf(_, _, _)
TargetsOf(src, prop, targets) ==
    IF targets = <<>> THEN <<>>
    ELSE <<[source |-> src, prop |-> prop, target |-> Head(targets)]>>
         \o TargetsOf(src, prop, Tail(targets))

RECURSIVE AssertionsOf(_, _)
AssertionsOf(src, assertions) ==
    IF assertions = <<>> THEN <<>>
    ELSE TargetsOf(src, Head(assertions).prop, Head(assertions).targets)
         \o AssertionsOf(src, Tail(assertions))

RECURSIVE AllAssertions(_)
AllAssertions(individuals) ==
    IF individuals = <<>> THEN <<>>
    ELSE AssertionsOf(Head(individuals).name, Head(individuals).property_assertions)
         \o AllAssertions(Tail(individuals))

\* variant of convert_to_graph_data that emits a relationship for every assertion,
\* with an id of no entity for a target that is no individual
convert_to_graph_data_every_assertion(owl_data, nxt) ==
    LET individuals == owl_data.individuals
        n == Len(individuals)
        names == {individuals[i].name : i \in 1..n}
        \* individual_to_entity_id: a later individual of the same name wins
        entity_id_of(nm) ==
            IF nm \notin names THEN Canon(0)
            ELSE Canon(nxt - 1 + CHOOSE i \in 1..n :
                           /\ individuals[i].name = nm
                           /\ \A j \in (i + 1)..n : individuals[j].name # nm)
        from_individuals ==
            [i \in 1..n |->
                [key |-> Canon(nxt + i - 1),
                 data |-> [type |-> infer_entity_type(individuals[i].type),
                           name |-> individuals[i].name,
                           properties |-> [owl_uri |-> Str(individuals[i].name),
                                           source |-> "owl_individual"]]]]
        KeepClass(rec) == rec.data.name \notin names
        from_classes == SelectSeq(owl_data.entities, KeepClass)
        Resolves(a) == TRUE
        asserted == SelectSeq(AllAssertions(individuals), Resolves)
        rels ==
            [i \in 1..Len(asserted) |->
                [key |-> Canon(nxt + n + i - 1),
                 data |-> [source_id |-> entity_id_of(asserted[i].source),
                           target_id |-> entity_id_of(asserted[i].target),
                           type |-> map_property_to_relationship_type(asserted[i].prop),
                           properties |-> [owl_property |-> Str(asserted[i].prop),
                                           source |-> "owl_assertion"]]]]
    IN  [entities |-> from_individuals \o from_classes,
         relationships |-> rels,
         minted |-> n + Len(asserted)]

\* convert_to_graph_data: individuals become entities, classes not named like an
\* individual are kept, assertions between individuals become relationships
convert_to_graph_data(owl_data, nxt) ==
    LET individuals == owl_data.individuals
        n == Len(individuals)
        names == {individuals[i].name : i \in 1..n}
        \* individual_to_entity_id: a later individual of the same name wins
        entity_id_of(nm) ==
            Canon(nxt - 1 + CHOOSE i \in 1..n :
                      /\ individuals[i].name = nm
                      /\ \A j \in (i + 1)..n : individuals[j].name # nm)
        from_individuals ==
            [i \in 1..n |->
                [key |-> Canon(nxt + i - 1),
                 data |-> [type |-> infer_entity_type(individuals[i].type),
                           name |-> individuals[i].name,
                           properties |-> [owl_uri |-> Str(individuals[i].name),
                                           source |-> "owl_individual"]]]]
        KeepClass(rec) == rec.data.name \notin names
        from_classes == SelectSeq(owl_data.entities, KeepClass)
        Resolves(a) == a.target \in names
        asserted == SelectSeq(AllAssertions(individuals), Resolves)
        rels ==
            [i \in 1..Len(asserted) |->
                [key |-> Canon(nxt + n + i - 1),
                 data |-> [source_id |-> entity_id_of(asserted[i].source),
                           target_id |-> entity_id_of(asserted[i].target),
                           type |-> map_property_to_relationship_type(asserted[i].prop),
                           properties |-> [owl_property |-> Str(asserted[i].prop),
                                           source |-> "owl_assertion"]]]]
    IN  [entities |-> from_individuals \o from_classes,
         relationships |-> rels,
         minted |-> n + Len(asserted)]

\* ------------------------------------------------- ExcelLoader (excel_loader.py)
\* variant that takes the first key equal ignoring case, an exact key or not
MatchRowFirstLoose(annotations, entity_name) ==
    LET loose == {i \in 1..Len(annotations) :
                     Lower(annotations[i].key) = Lower(entity_name)}
    IN  IF loose # {}
        THEN [found |-> TRUE,
              row |-> annotations[CHOOSE i \in loose : \A j \in loose : i <= j].row]
        ELSE [found |-> FALSE, row |-> ""]

\* the row apply_annotations_to_entities picks for a name: the exact key, else the
\* first key of the table that is equal ignoring case
MatchRow(annotations, entity_name) ==
    LET exact == {i \in 1..Len(annotations) : annotations[i].key = entity_name}
        loose == {i \in 1..Len(annotations) :
                     Lower(annotations[i].key) = Lower(entity_name)}
    IN  IF exact # {}
        THEN [found |-> TRUE, row |-> annotations[CHOOSE i \in exact : TRUE].row]
        ELSE IF loose # {}
        THEN [found |-> TRUE,
              row |-> annotations[CHOOSE i \in loose : \A j \in loose : i <= j].row]
        ELSE [found |-> FALSE, row |-> ""]

\* variant that assigns the properties instead of updating them
AnnotatePropertiesReplacing(properties, row) == [excel_annotations |-> row]

\* entity_data["properties"].update({"excel_annotations": row})
AnnotateProperties(properties, row) == Put(properties, "excel_annotations", row)

AnnotateEntity(annotations, entity_data) ==
    LET entity_name == IF "name" \in DOMAIN entity_data THEN entity_data.name ELSE <<>>
        properties == IF "properties" \in DOMAIN entity_data
                      THEN entity_data.properties ELSE EmptyDict
        m == MatchRow(annotations, entity_name)
    IN  IF m.found
        THEN Put(entity_data, "properties", AnnotateProperties(properties, m.row))
        ELSE entity_data

apply_annotations_to_entities(annotations, ents) ==
    [i \in 1..Len(ents) |->
        [key |-> ents[i].key, data |-> AnnotateEntity(annotations, ents[i].data)]]

\* ------------------------------------------------ OntologyManager (manager.py)
\* what one pass of _merge_ontology_into_graph hands on: the world, whether an
\* exception left the method, and per record the id it created (0: none)
MergeState(w, raised, err, made) == [w |-> w, raised |-> raised, err |-> err, made |-> made]

\* self.graph.add_entity(entity_data["type"], entity_data["name"], **properties)
AddFromRecord(w, entity_data) ==
    IF "type" \notin DOMAIN entity_data \/ "name" \notin DOMAIN entity_data
    THEN Raised(w, "KeyError")
    ELSE AdapterAddEntity(w, entity_data.type, entity_data.name,
                          IF "properties" \in DOMAIN entity_data
                          THEN entity_data.properties ELSE EmptyDict)

\* variant of the entity loop's turn without the lookup of the key
MergeEntityRecordNoLookup(w, rec) ==
    LET first == AddFromRecord(w, rec.data)
    IN  IF first.ok \/ first.err \notin {"ValueError", "TypeError"}
        THEN first
        ELSE AddFromRecord(first.w, rec.data)

\* one turn of the entity loop: the try block, and the except block that adds again
MergeEntityRecord(w, rec) ==
    LET parsed == UUIDParse(rec.key)
    IN  IF parsed.ok
        THEN IF AdapterGetEntity(w, parsed.id) # NoneValue
             THEN Returned(w, 0)
             ELSE LET first == AddFromRecord(w, rec.data)
                  IN  IF first.ok \/ first.err \notin {"ValueError", "TypeError"}
                      THEN first
                      ELSE AddFromRecord(first.w, rec.data)
        ELSE AddFromRecord(w, rec.data)

RECURSIVE MergeEntities(_, _, _)
MergeEntities(w, ents, made) ==
    IF ents = <<>> THEN MergeState(w, FALSE, "", made)
    ELSE LET r == MergeEntityRecord(w, Head(ents))
         IN  IF r.ok THEN MergeEntities(r.w, Tail(ents), Append(made, r.id))
             ELSE MergeState(r.w, TRUE, r.err, made)

\* one turn of the relationship loop; every exception it can meet is swallowed
MergeRelationshipRecord(w, rel_data) ==
    IF "source_id" \notin DOMAIN rel_data THEN Returned(w, 0)
    ELSE IF ~UUIDParse(rel_data.source_id).ok THEN Returned(w, 0)
    ELSE IF "target_id" \notin DOMAIN rel_data THEN Returned(w, 0)
    ELSE IF ~UUIDParse(rel_data.target_id).ok THEN Returned(w, 0)
    ELSE LET source_id == UUIDParse(rel_data.source_id).id
             target_id == UUIDParse(rel_data.target_id).id
         IN  IF \/ AdapterGetEntity(w, source_id) = NoneValue
                \/ AdapterGetEntity(w, target_id) = NoneValue
             THEN Returned(w, 0)
             ELSE IF "type" \notin DOMAIN rel_data THEN Returned(w, 0)
             ELSE LET r == AdapterAddRelationship(w, source_id, target_id, rel_data.type)
                  IN  IF r.ok THEN r
                      ELSE IF r.err = "ValueError" THEN Returned(w, 0)
                      ELSE r

RECURSIVE MergeRelationships(_, _, _)
MergeRelationships(w, rels, made) ==
    IF rels = <<>> THEN MergeState(w, FALSE, "", made)
    ELSE LET r == MergeRelationshipRecord(w, Head(rels).data)
         IN  IF r.ok THEN MergeRelationships(r.w, Tail(rels), Append(made, r.id))
             ELSE MergeState(r.w, TRUE, r.err, made)

\* _merge_ontology_into_graph: the entity loop, then the relationship loop
merge_ontology_into_graph(w, graph_data) ==
    LET e == MergeEntities(w, graph_data.entities, <<>>)
        r == MergeRelationships(e.w, graph_data.relationships, <<>>)
    IN  IF e.raised
        THEN [w |-> e.w, raised |-> TRUE, err |-> e.err,
              made_entities |-> e.made, made_relationships |-> <<>>]
        ELSE [w |-> r.w, raised |-> r.raised, err |-> r.err,
              made_entities |-> e.made, made_relationships |-> r.made]

\* HealthcareGraph.from_owl_data: the stores built from the dictionary, its keys as ids
HG_from_owl_data(graph_data) ==
    LET es == graph_data.entities
        rs == graph_data.relationships
    IN  [entities |->
            [id \in {UUIDParse(es[i].key).id : i \in 1..Len(es)} |->
                LET rec == es[CHOOSE i \in 1..Len(es) : UUIDParse(es[i].key).id = id]
                IN  MedicalEntity(rec.data.type, rec.data.name, rec.data.properties)],
         relationships |->
            [id \in {UUIDParse(rs[i].key).id : i \in 1..Len(rs)} |->
                LET rec == rs[CHOOSE i \in 1..Len(rs) : UUIDParse(rs[i].key).id = id]
                IN  Relationship(UUIDParse(rec.data.source_id).id,
                                 UUIDParse(rec.data.target_id).id, rec.data.type)]]

\* variant that fills a new graph through add_entity and add_relationship
initialize_graph_by_adding(w, graph_data) ==
    merge_ontology_into_graph(World(EmptyDict, EmptyDict, w.uuid_next), graph_data).w

\* initialize_graph_from_ontology: a new adapter around a graph built from the
\* stored dictionary replaces the current one
initialize_graph_from_ontology(w, graph_data) ==
    LET g == HG_from_owl_data(graph_data)
    IN  World(g.entities, g.relationships, w.uuid_next)

\* -------------------------------------------------------------------- inputs
Alice == <<"A","l","i","c","e">>
Flu == <<"F","l","u">>

\* arguments of add_entity: a specialised type, a generic one, one outside the enumeration
EntityRequests ==
    { [entity_type |-> "Disease", name |-> Flu, properties |-> [severity |-> "mild"]],
      [entity_type |-> "Doctor", name |-> Alice, properties |-> EmptyDict],
      [entity_type |-> "Ward", name |-> Flu, properties |-> EmptyDict] }

RelationshipTypeInputs == {"hasDisease", "likes"}

\* an id no uuid4() call of the run returns (uuid4 starts at 1)
FabricatedId == 0

\* parsed OWL documents
FileA ==
    [classes |-> <<>>,
     individuals |->
        << [name |-> Alice, type |-> <<"P","a","t","i","e","n","t">>,
            property_assertions |->
                << [prop |-> <<"h","a","s","D","i","s","e","a","s","e">>,
                    targets |-> <<Flu>>] >>],
           [name |-> Flu, type |-> <<"D","i","s","e","a","s","e">>,
            property_assertions |-> <<>>] >>]

FileB ==
    [classes |-> <<>>,
     individuals |->
        << [name |-> Flu, type |-> <<"D","i","a","g","n","o","s","i","s">>,
            property_assertions |->
                << [prop |-> <<"l","i","k","e","s">>,
                    targets |-> <<Alice>>] >>] >>]

\* the OWL files at hand; load_ontology names an ontology after its file
OntologyNames == {"o1", "o2"}

\* one individual with an assertion about itself
FileC ==
    [classes |-> <<>>,
     individuals |->
        << [name |-> Alice, type |-> <<"P","a","t","i","e","n","t">>,
            property_assertions |->
                << [prop |-> <<"h","a","s","D","i","s","e","a","s","e">>,
                    targets |-> <<Alice>>] >>] >>]

OwlFile(ontology_name) ==
    CASE ontology_name = "o1" -> FileA
      [] ontology_name = "o2" -> FileB
      [] OTHER -> FileC

ExcelNames == {"x1"}

\* annotation tables: name -> row, in the order the sheet gave them
AnnotationTables ==
    { << [key |-> Flu, row |-> [Description |-> "viral"]] >>,
      << [key |-> <<"f","l","u">>, row |-> [Description |-> "seasonal"]],
         [key |-> Flu, row |-> [Description |-> "acute"]],
         [key |-> <<"A","L","I","C","E">>, row |-> [Description |-> "inpatient"]],
         [key |-> <<"a","l","i","c","e">>, row |-> [Description |-> "home"]] >> }

\* str(v) of a property value, as its characters
StrChars(v) ==
    CASE v = "mild" -> <<"m","i","l","d">>
      [] v = "low" -> <<"l","o","w">>
      [] v = "Alice" -> <<"A","l","i","c","e">>
      [] v = "Flu" -> <<"F","l","u">>
      [] v = "owl_individual" ->
             <<"o","w","l","_","i","n","d","i","v","i","d","u","a","l">>

\* variant of search_entities that lowers the query and not the name
search_entities_name_as_is(w, query, entity_type) ==
    LET found == AdapterFindEntities(w, entity_type, <<>>)
        query_lower == Lower(query)
        Matches(entity) ==
            \/ Contains(query_lower, entity.name)
            \/ \E k \in DOMAIN entity.properties :
                  Contains(query_lower, Lower(StrChars(entity.properties[k])))
    IN  IF ~found.ok THEN found
        ELSE [ok |-> TRUE, err |-> "", result |-> SelectSeq(found.result, Matches)]

\* OntologyManager.search_entities: a scan of find_entities(entity_type)
search_entities(w, query, entity_type) ==
    LET found == AdapterFindEntities(w, entity_type, <<>>)
        query_lower == Lower(query)
        Matches(entity) ==
            \/ Contains(query_lower, Lower(entity.name))
            \/ \E k \in DOMAIN entity.properties :
                  Contains(query_lower, Lower(StrChars(entity.properties[k])))
    IN  IF ~found.ok THEN found
        ELSE [ok |-> TRUE, err |-> "", result |-> SelectSeq(found.result, Matches)]

\* list(d.keys()): every key of a dictionary, each once
RECURSIVE KeysList(_)
KeysList(S) ==
    IF S = {} THEN <<>>
    ELSE LET k == CHOOSE x \in S : TRUE IN <<k>> \o KeysList(S \ {k})

\* variant of get_statistics that reports the graph's figures only
get_statistics_graph_only(w, ontologies) ==
    LET graph_stats == HG_get_statistics(w)
    IN  [total_entities |-> graph_stats.total_entities,
         total_relationships |-> graph_stats.total_relationships,
         entities_by_type |-> graph_stats.entities_by_type,
         loaded_ontologies |-> <<>>]

\* OntologyManager.get_statistics: the graph's figures and the registered names
get_statistics(w, ontologies) ==
    LET graph_stats == HG_get_statistics(w)
    IN  [total_entities |-> graph_stats.total_entities,
         total_relationships |-> graph_stats.total_relationships,
         entities_by_type |-> graph_stats.entities_by_type,
         loaded_ontologies |-> KeysList(DOMAIN ontologies)]

\* --------------------------------------------------------------------- state
TheWorld == World(entities, relationships, uuid_next)

SetWorld(w) ==
    /\ entities' = w.entities
    /\ relationships' = w.relationships
    /\ uuid_next' = w.uuid_next

WithinBound(w) == w.uuid_next <= MaxUuid + 1

Init ==
    /\ adapter = FALSE
    /\ entities = EmptyDict
    /\ relationships = EmptyDict
    /\ uuid_next = 1
    /\ loaded_ontologies = EmptyDict
    /\ loaded_excel_files = EmptyDict
    /\ tools = EmptyDict
    /\ issued = <<>>
    /\ last = [op |-> "init"]

\* OntologyManager.add_entity; the `graph` property creates the adapter on first use
AddEntity(req) ==
    LET r == AdapterAddEntity(TheWorld, req.entity_type, req.name, req.properties)
    IN  /\ WithinBound(r.w)
        /\ SetWorld(r.w)
        /\ adapter' = TRUE
        /\ issued' = IF r.ok
                     THEN Append(issued, [call |-> "add_entity", id |-> r.id, arg |-> req])
                     ELSE issued
        /\ last' = [op |-> "add_entity", ok |-> r.ok, err |-> r.err, id |-> r.id,
                    arg |-> req, pre |-> TheWorld]
        /\ UNCHANGED <<loaded_ontologies, loaded_excel_files, tools>>

\* OntologyManager.add_relationship
AddRelationship(source_id, target_id, relationship_type) ==
    LET r == AdapterAddRelationship(TheWorld, source_id, target_id, relationship_type)
        arg == [source_id |-> source_id, target_id |-> target_id,
                relationship_type |-> relationship_type]
    IN  /\ WithinBound(r.w)
        /\ SetWorld(r.w)
        /\ adapter' = TRUE
        /\ issued' = IF r.ok
                     THEN Append(issued, [call |-> "add_relationship", id |-> r.id, arg |-> arg])
                     ELSE issued
        /\ last' = [op |-> "add_relationship", ok |-> r.ok, err |-> r.err, id |-> r.id,
                    arg |-> arg, pre |-> TheWorld]
        /\ UNCHANGED <<loaded_ontologies, loaded_excel_files, tools>>

\* variant of the branch test with the comparison slipped from == 0 to >= 0
FreshLoadAnySize(has_adapter, w) == ~has_adapter \/ Cardinality(DOMAIN w.entities) >= 0

\* the branch load_ontology takes: no adapter yet, or a graph with no entity
FreshLoad(has_adapter, w) == ~has_adapter \/ Cardinality(DOMAIN w.entities) = 0

\* variant of the registration that has not happened yet when the graph is touched
RegisterOntologyLater(ontologies, ontology_name, graph_data) == ontologies

\* self._loaded_ontologies[ontology_name] = {..., "graph_data": graph_data}
RegisterOntology(ontologies, ontology_name, graph_data) ==
    Put(ontologies, ontology_name, graph_data)

\* initialize_graph_from_ontology(ontology_name) as load_ontology calls it: the
\* dictionary is the one the registry holds under the name
InitializeNamed(w, ontologies, ontology_name) ==
    IF ontology_name \notin DOMAIN ontologies
    THEN Raised(w, "ValueError")
    ELSE Returned(initialize_graph_from_ontology(w, ontologies[ontology_name]), 0)

\* OntologyManager.load_ontology: parse, convert, register, then fresh load or merge
LoadOntology(ontology_name, file) ==
    LET owl_data == load_owl_file(file, uuid_next)
        converted == convert_to_graph_data(owl_data, uuid_next + Len(file.classes))
        graph_data == [entities |-> converted.entities,
                       relationships |-> converted.relationships]
        registry == RegisterOntology(loaded_ontologies, ontology_name, graph_data)
        w0 == World(entities, relationships,
                    uuid_next + Len(file.classes) + converted.minted)
        fresh == FreshLoad(adapter, TheWorld)
        f == InitializeNamed(w0, registry, ontology_name)
        m == merge_ontology_into_graph(w0, graph_data)
        w1 == IF fresh THEN f.w ELSE m.w
    IN  /\ WithinBound(w1)
        /\ loaded_ontologies' = Put(loaded_ontologies, ontology_name, graph_data)
        /\ SetWorld(w1)
        /\ adapter' = (adapter \/ ~fresh \/ f.ok)
        /\ last' = [op |-> "load_ontology", ok |-> IF fresh THEN f.ok ELSE ~m.raised,
                    err |-> IF fresh THEN f.err ELSE m.err,
                    mode |-> IF fresh THEN "fresh" ELSE "merge",
                    arg |-> [ontology_name |-> ontology_name, graph_data |-> graph_data],
                    pre |-> TheWorld]
        /\ UNCHANGED <<loaded_excel_files, issued, tools>>

\* OntologyManager.load_excel_annotations: the table read from the file is registered
LoadExcel(excel_name, annotations) ==
    /\ loaded_excel_files' = Put(loaded_excel_files, excel_name, annotations)
    /\ last' = [op |-> "load_excel_annotations", ok |-> TRUE,
                arg |-> [excel_name |-> excel_name, annotations |-> annotations]]
    /\ UNCHANGED <<adapter, entities, relationships, uuid_next, loaded_ontologies, issued, tools>>

\* OntologyManager.apply_excel_annotations
ApplyExcel(ontology_name, excel_name) ==
    IF ontology_name \notin DOMAIN loaded_ontologies
       \/ excel_name \notin DOMAIN loaded_excel_files
    THEN /\ last' = [op |-> "apply_excel_annotations", ok |-> FALSE, err |-> "ValueError",
                     arg |-> [ontology_name |-> ontology_name, excel_name |-> excel_name],
                     pre |-> TheWorld]
         /\ UNCHANGED <<adapter, entities, relationships, uuid_next,
                        loaded_ontologies, loaded_excel_files, issued, tools>>
    ELSE LET graph_data == loaded_ontologies[ontology_name]
             annotations == loaded_excel_files[excel_name]
             updated_entities == apply_annotations_to_entities(annotations,
                                                               graph_data.entities)
             updated == [graph_data EXCEPT !.entities = updated_entities]
         IN  /\ loaded_ontologies' = Put(loaded_ontologies, ontology_name, updated)
             /\ SetWorld(initialize_graph_from_ontology(TheWorld, updated))
             /\ adapter' = TRUE
             /\ last' = [op |-> "apply_excel_annotations", ok |-> TRUE, err |-> "",
                         arg |-> [ontology_name |-> ontology_name,
                                  excel_name |-> excel_name],
                         annotations |-> annotations,
                         pre_data |-> graph_data,
                         pre |-> TheWorld]
             /\ UNCHANGED <<loaded_excel_files, issued, tools>>

\* ------------------------------------------- ingestion dictionaries for a merge
MinOf(S) == CHOOSE x \in S : \A y \in S : x <= y
MaxOf(S) == CHOOSE x \in S : \A y \in S : y <= x

\* entity records: the key of a live entity; a new uuid key; a key that is no uuid;
\* a type outside the enumeration; no "name"
EntityRecords(w) ==
    { [key |-> Canon(MinOf(DOMAIN w.entities)),
       data |-> [type |-> "Treatment", name |-> Flu, properties |-> [dose |-> "low"]]],
      [key |-> Canon(FabricatedId),
       data |-> [type |-> "Disease", name |-> Flu, properties |-> EmptyDict]],
      [key |-> TextKey(1),
       data |-> [type |-> "Doctor", name |-> Alice]],
      [key |-> Canon(FabricatedId - 1),
       data |-> [type |-> "Ward", name |-> Flu, properties |-> EmptyDict]],
      [key |-> TextKey(2),
       data |-> [type |-> "Patient", properties |-> EmptyDict]] }

\* the record among them whose type is outside the enumeration
MalformedEntityRecords(w) == {rec \in EntityRecords(w) : rec.key = Canon(FabricatedId - 1)}

\* relationship records: resolvable, rejected type, unresolved target, unparsable
\* source, no "type"
RelationshipBodies(w) ==
    LET lo == Canon(MinOf(DOMAIN w.entities))
        hi == Canon(MaxOf(DOMAIN w.entities))
    IN  { [source_id |-> lo, target_id |-> hi, type |-> "hasDisease"],
          [source_id |-> lo, target_id |-> hi, type |-> "likes"],
          [source_id |-> lo, target_id |-> Canon(FabricatedId), type |-> "hasDisease"],
          [source_id |-> TextKey(1), target_id |-> hi, type |-> "hasDisease"],
          [source_id |-> hi, target_id |-> lo] }

\* the record among them that the graph accepts
ResolvableRelationshipBodies(w) ==
    {b \in RelationshipBodies(w) :
        /\ DOMAIN b = {"source_id", "target_id", "type"}
        /\ b.source_id.form = "canonical" /\ b.target_id.n # FabricatedId
        /\ b.type \in RelationshipType}

DistinctKeys(recs) == \A i, j \in 1..Len(recs) : i # j => recs[i].key # recs[j].key

\* the dictionaries of at most MaxRecs records over the given records
MergeInputs(ers, rbs) ==
    LET Dicts(ne, nr) ==
            { [entities |-> es,
               relationships |-> [i \in 1..nr |-> [key |-> TextKey(i), data |-> rs[i]]]] :
                 es \in {e \in [1..ne -> ers] : DistinctKeys(e)},
                 rs \in [1..nr -> rbs] }
    IN  UNION { Dicts(n[1], n[2]) :
                  n \in {m \in (0..MaxRecs) \X (0..MaxRecs) : m[1] + m[2] <= MaxRecs} }

\* _merge_ontology_into_graph, called on a graph that holds entities
Merge(graph_data) ==
    LET m == merge_ontology_into_graph(TheWorld, graph_data)
    IN  /\ adapter
        /\ DOMAIN entities # {}
        /\ WithinBound(m.w)
        /\ SetWorld(m.w)
        /\ last' = [op |-> "merge", ok |-> ~m.raised, err |-> m.err,
                    arg |-> graph_data, pre |-> TheWorld,
                    made_entities |-> m.made_entities,
                    made_relationships |-> m.made_relationships,
                    again |-> last.op = "merge" /\ last.ok /\ last.arg = graph_data]
        /\ UNCHANGED <<adapter, loaded_ontologies, loaded_excel_files, issued, tools>>

\* endpoints handed to add_relationship: the oldest and the newest live entity
LiveEndpoints(w) ==
    IF DOMAIN w.entities = {} THEN {}
    ELSE {MinOf(DOMAIN w.entities), MaxOf(DOMAIN w.entities)}

\* ------------------------------------------------------------------ lookups
\* a lookup leaves the graph as it is; the `graph` property it goes through
\* creates the adapter when there is none
Lookup(op, arg, r) ==
    /\ adapter' = TRUE
    /\ last' = [op |-> op, arg |-> arg, ok |-> r.ok, err |-> r.err,
                result |-> IF r.ok THEN r.result ELSE <<>>, pre |-> TheWorld]
    /\ UNCHANGED <<entities, relationships, uuid_next,
                   loaded_ontologies, loaded_excel_files, issued, tools>>

\* OntologyManager.get_entity
GetEntity(entity_id) ==
    Lookup("get_entity", [entity_id |-> entity_id],
           [ok |-> TRUE, err |-> "", result |-> AdapterGetEntity(TheWorld, entity_id)])

\* OntologyManager.find_entities
FindEntities(entity_type, filters) ==
    Lookup("find_entities", [entity_type |-> entity_type, filters |-> filters],
           AdapterFindEntities(TheWorld, entity_type, filters))

\* NeuroStackGraphAdapter.get_relationships, reached through OntologyManager.graph
GetRelationships(entity_id, relationship_type, direction) ==
    Lookup("get_relationships",
           [entity_id |-> entity_id, relationship_type |-> relationship_type,
            direction |-> direction],
           AdapterGetRelationshipList(TheWorld, entity_id, relationship_type, direction))

\* NeuroStackGraphAdapter.get_neighbors, reached through OntologyManager.graph
GetNeighbors(entity_id, relationship_type, direction) ==
    Lookup("get_neighbors",
           [entity_id |-> entity_id, relationship_type |-> relationship_type,
            direction |-> direction],
           AdapterGetNeighbors(TheWorld, entity_id, relationship_type, direction))

\* OntologyManager.search_entities
SearchEntities(query, entity_type) ==
    Lookup("search_entities", [query |-> query, entity_type |-> entity_type],
           search_entities(TheWorld, query, entity_type))

\* OntologyManager.query_patient_info
QueryPatientInfo(patient_id) ==
    Lookup("query_patient_info", [patient_id |-> patient_id],
           AdapterQueryPatientInfo(TheWorld, patient_id))

\* OntologyManager.export_ontology
ExportOntology ==
    Lookup("export_ontology", <<>>,
           [ok |-> TRUE, err |-> "", result |-> AdapterExportGraph(TheWorld)])

\* OntologyManager.get_statistics
GetStatistics ==
    /\ adapter' = TRUE
    /\ last' = [op |-> "get_statistics", ok |-> TRUE, err |-> "",
                result |-> get_statistics(TheWorld, loaded_ontologies), pre |-> TheWorld]
    /\ UNCHANGED <<entities, relationships, uuid_next,
                   loaded_ontologies, loaded_excel_files, issued, tools>>

Lookups == {"get_entity", "find_entities", "get_relationships", "get_neighbors",
            "search_entities", "query_patient_info", "export_ontology"}

\* arguments of the lookups: ids of the oldest and the newest entity and of none
IdInputs(w) == LiveEndpoints(w) \cup {FabricatedId}

\* no type, types of the enumerations, and strings outside them
EntityTypeInputs == {"", "Patient", "Disease", "Ward"}

RelationshipTypeFilters == {"", "hasDisease", "likes"}

Directions == {"incoming", "outgoing", "both"}

Bob == <<"B","o","b">>

FilterInputs ==
    { <<>>,
      <<[key |-> "name", value |-> Alice]>>,
      <<[key |-> "name", value |-> Bob]>>,
      <<[key |-> "severity", value |-> "mild"]>>,
      <<[key |-> "name", value |-> Flu], [key |-> "severity", value |-> "mild"]>>,
      <<[key |-> "age", value |-> "mild"]>> }

QueryInputs == { <<"f","l">>, <<"M","I","L">>, <<"z">> }

\* ----------------------------------------------------- tools (tools/base.py)
\* ToolResult, without the id and the execution time
ToolResult(tool_name, result, success, error_message) ==
    [tool_name |-> tool_name, result |-> result, success |-> success,
     error_message |-> error_message]

\* the wrapped function of a SimpleTool: there is none, it returns, or it raises
\* an Exception; it is handed the context only when the context is not empty
CallExecuteFunc(tool, arguments, context) ==
    CASE tool.func = "returns" ->
             [raised |-> FALSE, error |-> "",
              value |-> [by |-> tool.ident, arguments |-> arguments,
                         context |-> IF context = EmptyDict THEN NoneValue ELSE context]]
      [] tool.func = "raises" ->
             [raised |-> TRUE, error |-> "boom", value |-> NoneValue]
      [] OTHER ->
             [raised |-> FALSE, error |-> "",
              value |-> [executed |-> tool.name, arguments |-> arguments]]

\* variant of execute that reports every call as a success
SimpleToolExecuteAlwaysSuccess(tool, arguments, context) ==
    ToolResult(tool.name, CallExecuteFunc(tool, arguments, context).value, TRUE, NoneValue)

\* SimpleTool.execute
SimpleToolExecute(tool, arguments, context) ==
    LET r == CallExecuteFunc(tool, arguments, context)
    IN  IF r.raised
        THEN ToolResult(tool.name, NoneValue, FALSE, r.error)
        ELSE ToolResult(tool.name, r.value, TRUE, NoneValue)

\* variant of register_tool that keeps the tool a name already has
register_tool_keep_first(registry, tool) ==
    IF tool.name \in DOMAIN registry THEN registry ELSE Put(registry, tool.name, tool)

\* self._tools[tool.name] = tool
register_tool(registry, tool) == Put(registry, tool.name, tool)

\* ToolRegistry.get_tool: self._tools.get(tool_name)
get_tool(registry, tool_name) ==
    IF tool_name \in DOMAIN registry THEN registry[tool_name] ELSE NoneValue

\* a call of the registry leaves the ontology manager alone
RegistryCall(op, arg, result) ==
    /\ last' = [op |-> op, arg |-> arg, result |-> result, pre |-> tools]
    /\ UNCHANGED <<adapter, entities, relationships, uuid_next,
                   loaded_ontologies, loaded_excel_files, issued>>

\* ToolRegistry.register_tool
RegisterTool(tool) ==
    /\ tools' = register_tool(tools, tool)
    /\ RegistryCall("register_tool", tool, NoneValue)

\* ToolRegistry.unregister_tool
UnregisterTool(tool_name) ==
    /\ tools' = [n \in DOMAIN tools \ {tool_name} |-> tools[n]]
    /\ RegistryCall("unregister_tool", tool_name, tool_name \in DOMAIN tools)

\* ToolRegistry.get_tool
GetTool(tool_name) ==
    /\ tools' = tools
    /\ RegistryCall("get_tool", tool_name, get_tool(tools, tool_name))

\* ToolRegistry.list_tools
ListTools ==
    /\ tools' = tools
    /\ RegistryCall("list_tools", <<>>, KeysList(DOMAIN tools))

\* ToolRegistry.execute_tool
ExecuteTool(tool_name, arguments, context) ==
    LET tool == get_tool(tools, tool_name)
    IN  /\ tools' = tools
        /\ RegistryCall("execute_tool",
                        [tool_name |-> tool_name, arguments |-> arguments,
                         context |-> context],
                        IF tool = NoneValue
                        THEN ToolResult(tool_name, NoneValue, FALSE, "not found")
                        ELSE SimpleToolExecute(tool, arguments, context))

\* tools: two names, two tools of each name for each kind of wrapped function
ToolInputs == [name : {"t1", "t2"}, ident : {"a", "b"}, func : {"none", "returns", "raises"}]

\* names asked for: the two and one that no tool has
ToolNameInputs == {"t1", "t2", "t3"}

ArgumentInputs == {[q |-> "x"]}

\* no context, and a context
ContextInputs == {EmptyDict, [caller |-> "agent"]}

\* ------------------------------------------------------------ OWL documents
\* class names: one keyword, two keywords of different rules, upper case, none
ClassWords ==
    { <<"P","a","t","i","e","n","t">>, <<"D","i","a","g","n","o","s","i","s">>,
      <<"P","a","t","i","e","n","t","T","h","e","r","a","p","y">>,
      <<"H","o","s","p","i","t","a","l","D","o","c","t","o","r">>,
      <<"P","H","Y","S","I","C","I","A","N">>, <<"M","e","d","i","c","a","t","i","o","n">>,
      <<"F","a","c","i","l","i","t","y">>, <<"W","a","r","d">>,
      <<"T","r","e","a","t","m","e","n","t","O","f","D","i","s","e","a","s","e">> }

\* the rdf:type of an individual; "Entity" is what _extract_individuals puts for none
IndividualTypes ==
    { <<"P","a","t","i","e","n","t">>, <<"D","i","s","e","a","s","e">>,
      <<"E","n","t","i","t","y">>, <<"H","o","s","p","i","t","a","l","D","o","c","t","o","r">> }

\* property assertions of one individual: none, one to an individual, one with a
\* target that is an individual and a target that is none
AssertionInputs ==
    { <<>>,
      << [prop |-> <<"h","a","s","D","i","s","e","a","s","e">>, targets |-> <<Flu>>] >>,
      << [prop |-> <<"l","i","k","e","s">>, targets |-> <<Alice, Bob>>] >> }

IndividualInputs ==
    [name : {Alice, Flu}, type : IndividualTypes, property_assertions : AssertionInputs]

\* parsed documents: no class, one class (also one named like an individual), and
\* up to two individuals, two of one name included
Documents ==
    [classes : {<<>>} \cup {<<c>> : c \in ClassWords \cup {Alice}},
     individuals : {<<>>} \cup {<<a>> : a \in IndividualInputs}
                         \cup {<<a, b>> : a, b \in IndividualInputs}]

\* a document has been parsed and nothing else has happened
InitConvert ==
    /\ adapter = FALSE
    /\ entities = EmptyDict
    /\ relationships = EmptyDict
    /\ uuid_next = 1
    /\ loaded_ontologies = EmptyDict
    /\ loaded_excel_files = EmptyDict
    /\ tools = EmptyDict
    /\ issued = <<>>
    /\ \E file \in Documents : last = [op |-> "parse", file |-> file]

\* OWLLoader.load_owl_file on the parsed document
LoadOwlFile ==
    /\ last.op = "parse"
    /\ uuid_next + Len(last.file.classes) <= MaxUuid + 1
    /\ uuid_next' = uuid_next + Len(last.file.classes)
    /\ last' = [op |-> "load_owl_file", file |-> last.file,
                owl_data |-> load_owl_file(last.file, uuid_next)]
    /\ UNCHANGED <<adapter, entities, relationships,
                   loaded_ontologies, loaded_excel_files, issued, tools>>

\* OWLLoader.convert_to_graph_data on what load_owl_file returned
ConvertToGraphData ==
    /\ last.op = "load_owl_file"
    /\ LET converted == convert_to_graph_data(last.owl_data, uuid_next)
       IN  /\ uuid_next + converted.minted <= MaxUuid + 1
           /\ uuid_next' = uuid_next + converted.minted
           /\ last' = [op |-> "convert_to_graph_data", file |-> last.file,
                       owl_data |-> last.owl_data,
                       result |-> [entities |-> converted.entities,
                                   relationships |-> converted.relationships]]
    /\ UNCHANGED <<adapter, entities, relationships,
                   loaded_ontologies, loaded_excel_files, issued, tools>>

\* ------------------------------------------------------------ specifications
\* the life of a manager: ontologies and annotation tables are loaded and applied,
\* with additions to the live graph in between
Next ==
    \/ \E req \in {r \in EntityRequests : r.entity_type = "Disease"} : AddEntity(req)
    \/ \E s, t \in LiveEndpoints(TheWorld) \cup {FabricatedId} :
          s <= t /\ AddRelationship(s, t, "hasDisease")
    \/ \E nm \in OntologyNames : LoadOntology(nm, OwlFile(nm))
    \/ \E x \in ExcelNames, t \in AnnotationTables : LoadExcel(x, t)
    \/ \E nm \in OntologyNames, x \in ExcelNames : ApplyExcel(nm, x)
    \/ GetStatistics

Spec == Init /\ [][Next]_vars

\* additions to one graph, with arguments the graph accepts and arguments it rejects
NextGraph ==
    \/ \E req \in EntityRequests : AddEntity(req)
    \/ \E s, t \in LiveEndpoints(TheWorld) \cup {FabricatedId},
          ty \in RelationshipTypeInputs : AddRelationship(s, t, ty)

SpecGraph == Init /\ [][NextGraph]_vars

\* merges into the graph of a loaded ontology: every kind of entity record
NextMerge ==
    \/ \E nm \in {"o1"} : adapter = FALSE /\ LoadOntology(nm, OwlFile(nm))
    \/ /\ DOMAIN entities # {}
       /\ \E d \in MergeInputs(EntityRecords(TheWorld),
                               ResolvableRelationshipBodies(TheWorld)) : Merge(d)

SpecMerge == Init /\ [][NextMerge]_vars

\* merges into the graph of a loaded ontology: every kind of relationship record
NextMergeRel ==
    \/ \E nm \in {"o1"} : adapter = FALSE /\ LoadOntology(nm, OwlFile(nm))
    \/ /\ DOMAIN entities # {}
       /\ \E d \in MergeInputs(MalformedEntityRecords(TheWorld),
                               RelationshipBodies(TheWorld)) : Merge(d)

SpecMergeRel == Init /\ [][NextMergeRel]_vars

\* ontologies loaded one after another, with additions in between
NextLoads ==
    \/ \E nm \in OntologyNames \cup {"o3"} : LoadOntology(nm, OwlFile(nm))
    \/ \E req \in EntityRequests : AddEntity(req)
    \/ \E s, t \in LiveEndpoints(TheWorld) : AddRelationship(s, t, "hasDisease")

SpecLoads == Init /\ [][NextLoads]_vars

\* the loader on a document: load_owl_file, then convert_to_graph_data
NextConvert ==
    \/ LoadOwlFile
    \/ ConvertToGraphData

SpecConvert == InitConvert /\ [][NextConvert]_vars

\* a tool registry in use
NextTools ==
    \/ \E t \in ToolInputs : RegisterTool(t)
    \/ \E n \in ToolNameInputs : UnregisterTool(n)
    \/ \E n \in ToolNameInputs : GetTool(n)
    \/ ListTools
    \/ \E n \in ToolNameInputs, a \in ArgumentInputs, c \in ContextInputs :
          ExecuteTool(n, a, c)

SpecTools == Init /\ [][NextTools]_vars

\* a graph is built by a load and additions to it, then a lookup is made of it
NextQuery ==
    \/ \E nm \in {"o1"} :
          last.op \notin Lookups /\ adapter = FALSE /\ LoadOntology(nm, OwlFile(nm))
    \/ \E req \in EntityRequests :
          last.op \notin Lookups /\ DOMAIN entities # {} /\ AddEntity(req)
    \/ \E s, t \in LiveEndpoints(TheWorld), ty \in RelationshipType :
          last.op \notin Lookups /\ AddRelationship(s, t, ty)
    \/ \E id \in IdInputs(TheWorld) : last.op \notin Lookups /\ GetEntity(id)
    \/ \E ty \in EntityTypeInputs, fs \in FilterInputs :
          last.op \notin Lookups /\ FindEntities(ty, fs)
    \/ \E id \in IdInputs(TheWorld), ty \in RelationshipTypeFilters, dir \in Directions :
          last.op \notin Lookups /\ GetRelationships(id, ty, dir)
    \/ \E id \in IdInputs(TheWorld), ty \in RelationshipTypeFilters, dir \in Directions :
          last.op \notin Lookups /\ GetNeighbors(id, ty, dir)
    \/ \E q \in QueryInputs, ty \in EntityTypeInputs :
          last.op \notin Lookups /\ SearchEntities(q, ty)
    \/ \E id \in IdInputs(TheWorld) : last.op \notin Lookups /\ QueryPatientInfo(id)
    \/ last.op \notin Lookups /\ ExportOntology

SpecQuery == Init /\ [][NextQuery]_vars

\* ------------------------------------------------------ merging (manager.py)
\* C1: merging the same dictionary a second time into a graph that holds entities
\* adds no entity: the entity count after the second merge is the count before it.
C1_SecondMergeAddsNoEntity ==
    (last.op = "merge" /\ last.again)
        => Cardinality(DOMAIN entities) = Cardinality(DOMAIN last.pre.entities)

\* C2: a merge never raises because of an entity record with an unrecognized type
\* or without "type" or "name", and every other well-formed record of the
\* dictionary whose key is not live is still added.
C2_MergeToleratesBadEntityRecords ==
    last.op = "merge"
        => /\ last.ok
           /\ \A i \in 1..Len(last.arg.entities) :
                LET rec == last.arg.entities[i]
                    live == UUIDParse(rec.key).ok
                            /\ UUIDParse(rec.key).id \in DOMAIN last.pre.entities
                    well_formed == /\ {"type", "name"} \subseteq DOMAIN rec.data
                                   /\ rec.data.type \in EntityType
                IN  (well_formed /\ ~live)
                        => \E id \in DOMAIN entities \ DOMAIN last.pre.entities :
                              /\ entities[id].entity_type = rec.data.type
                              /\ entities[id].name = rec.data.name

\* C3: a merge adds a relationship record exactly when both its endpoints resolve
\* to live entities and its creation is accepted; any other record is skipped
\* without raising, so that every relationship record of the dictionary is processed.
C3_RelationshipRecordAddedIffResolvable ==
    last.op = "merge"
        => /\ Len(last.made_relationships) = Len(last.arg.relationships)
           /\ \A i \in 1..Len(last.arg.relationships) :
                LET d == last.arg.relationships[i].data
                    resolves ==
                        /\ {"source_id", "target_id"} \subseteq DOMAIN d
                        /\ UUIDParse(d.source_id).ok /\ UUIDParse(d.target_id).ok
                        /\ UUIDParse(d.source_id).id \in DOMAIN entities
                        /\ UUIDParse(d.target_id).id \in DOMAIN entities
                    accepted == "type" \in DOMAIN d /\ d.type \in RelationshipType
                    added ==
                        /\ i <= Len(last.made_relationships)
                        /\ last.made_relationships[i] \in
                               DOMAIN relationships \ DOMAIN last.pre.relationships
                IN  (resolves /\ accepted) <=> added

\* C8: a merge passes over an entity record whose key is the id of a live entity:
\* that entity keeps its type, name and properties, and no entity is created for
\* the record (the entities a merge creates are those of its other records).
C8_LiveKeyRecordSkipped ==
    last.op = "merge"
        => /\ \A i \in 1..Len(last.arg.entities) :
                LET parsed == UUIDParse(last.arg.entities[i].key)
                IN  (parsed.ok /\ parsed.id \in DOMAIN last.pre.entities)
                        => /\ parsed.id \in DOMAIN entities
                           /\ entities[parsed.id] = last.pre.entities[parsed.id]
                           /\ i <= Len(last.made_entities) => last.made_entities[i] = 0
           /\ DOMAIN entities \ DOMAIN last.pre.entities
                  = {last.made_entities[i] : i \in 1..Len(last.made_entities)} \ {0}

\* a merge that returned, of a dictionary with a live-key record differing from the
\* live entity and another record that was created
C8_Witness ==
    /\ last.op = "merge" /\ last.ok
    /\ \E i, j \in 1..Len(last.arg.entities) :
          /\ UUIDParse(last.arg.entities[i].key).ok
          /\ UUIDParse(last.arg.entities[i].key).id \in DOMAIN last.pre.entities
          /\ last.arg.entities[i].data.name
                 # last.pre.entities[UUIDParse(last.arg.entities[i].key).id].name
          /\ last.made_entities[j] # 0

\* ------------------------------------------ the live graph (graph_adapter.py)
\* C4: add_relationship fails when its source_id or its target_id is not the id of
\* an entity of the graph, and a call that fails leaves the relationship store as
\* it was.
C4_AddRelationshipFailsClosed ==
    last.op = "add_relationship"
        => /\ (\/ last.arg.source_id \notin DOMAIN last.pre.entities
               \/ last.arg.target_id \notin DOMAIN last.pre.entities) => ~last.ok
           /\ ~last.ok => relationships = last.pre.relationships

\* a call with an accepted type and an absent endpoint, on a graph that has edges
C4_Witness ==
    /\ last.op = "add_relationship" /\ ~last.ok
    /\ last.arg.relationship_type \in RelationshipType
    /\ last.arg.target_id \notin DOMAIN last.pre.entities
    /\ last.arg.source_id \in DOMAIN last.pre.entities
    /\ DOMAIN relationships # {}

\* C5: the relationship a successful add_relationship(s, t, type) created is among
\* get_relationships(s, direction "outgoing") and among get_relationships(t,
\* direction "incoming"), in the state after the call and in every later state.
C5_AddedRelationshipStaysRetrievable ==
    \A i \in 1..Len(issued) :
        issued[i].call = "add_relationship"
            => LET d == [id |-> Canon(issued[i].id),
                         source_id |-> Canon(issued[i].arg.source_id),
                         target_id |-> Canon(issued[i].arg.target_id),
                         type |-> issued[i].arg.relationship_type]
               IN  /\ d \in AdapterGetRelationships(TheWorld, issued[i].arg.source_id,
                                                    "", "outgoing").rels
                   /\ d \in AdapterGetRelationships(TheWorld, issued[i].arg.target_id,
                                                    "", "incoming").rels

\* C6: after any sequence of add_entity calls, get_entity of an id a call returned
\* gives the type, name and properties that call was given, and no two calls
\* returned the same id.
C6_AddedEntityRetrievableUnderOwnId ==
    \A i \in 1..Len(issued) :
        issued[i].call = "add_entity"
            => /\ AdapterGetEntity(TheWorld, issued[i].id)
                      = [id |-> Canon(issued[i].id),
                         type |-> issued[i].arg.entity_type,
                         name |-> issued[i].arg.name,
                         properties |-> issued[i].arg.properties]
               /\ \A j \in 1..Len(issued) :
                      (j # i /\ issued[j].call = "add_entity") => issued[j].id # issued[i].id

\* calls for a specialised type with properties and for a generic type, both
\* returned, after a call that was rejected
C6_Witness ==
    /\ \E i, j \in 1..Len(issued) :
          /\ issued[i].call = "add_entity" /\ issued[i].arg.entity_type = "Disease"
          /\ issued[i].arg.properties # EmptyDict
          /\ issued[j].call = "add_entity" /\ issued[j].arg.entity_type = "Doctor"
    /\ last.op = "add_entity" /\ ~last.ok

\* --------------------------------------------- the manager's life (manager.py)
\* C7: load_ontology called while the live graph holds at least one entity
\* discards nothing: every entity and every relationship of the graph before the
\* call is in the graph after it, under the same id and unchanged.
C7_MergeLoadKeepsTheGraph ==
    (last.op = "load_ontology" /\ DOMAIN last.pre.entities # {})
        => /\ \A id \in DOMAIN last.pre.entities :
                id \in DOMAIN entities /\ entities[id] = last.pre.entities[id]
           /\ \A id \in DOMAIN last.pre.relationships :
                id \in DOMAIN relationships
                /\ relationships[id] = last.pre.relationships[id]

\* a second ontology loaded into a graph with entities and an edge, and it added
\* entities of its own
C7_Witness ==
    /\ last.op = "load_ontology" /\ last.mode = "merge"
    /\ DOMAIN last.pre.entities # {}
    /\ DOMAIN last.pre.relationships # {}
    /\ DOMAIN entities # DOMAIN last.pre.entities

\* C9: apply_excel_annotations leaves the live graph with the entities and the
\* relationships it had, those added by add_entity or merged from another
\* ontology included; nothing is deleted.
C9_ApplyExcelDeletesNothing ==
    (last.op = "apply_excel_annotations" /\ last.ok)
        => /\ DOMAIN last.pre.entities \subseteq DOMAIN entities
           /\ DOMAIN last.pre.relationships \subseteq DOMAIN relationships

\* ----------------------------------------------- annotations (excel_loader.py)
\* C10: apply_annotations_to_entities is additive: every property key an entity
\* had before the call has the same value after it, and the matched row shows up
\* under the key excel_annotations only; so too when annotations are applied a
\* second time from a different table.
C10_AnnotationKeepsEveryPropertyKey ==
    (last.op = "apply_excel_annotations" /\ last.ok)
        => \A i \in 1..Len(last.pre_data.entities) :
              LET before == last.pre_data.entities[i].data.properties
                  after == loaded_ontologies[last.arg.ontology_name].entities[i].data.properties
              IN  /\ \A k \in DOMAIN before : k \in DOMAIN after /\ after[k] = before[k]
                  /\ DOMAIN after \ DOMAIN before \subseteq {"excel_annotations"}

\* C10, amended: every property key other than excel_annotations that an entity
\* had before the call has the same value after it and no other key appears; an
\* entity whose name matches a key of the table, exactly or ignoring case, has a
\* row of a matching key under excel_annotations after the call, in place of any
\* value the key had; an entity without a match keeps its properties as they were.
C10_AnnotationKeepsOtherPropertyKeys ==
    (last.op = "apply_excel_annotations" /\ last.ok)
        => \A i \in 1..Len(last.pre_data.entities) :
              LET name == last.pre_data.entities[i].data.name
                  before == last.pre_data.entities[i].data.properties
                  after == loaded_ontologies[last.arg.ontology_name].entities[i].data.properties
                  rows == {last.annotations[j].row : j \in
                              {j \in 1..Len(last.annotations) :
                                  Lower(last.annotations[j].key) = Lower(name)}}
              IN  /\ \A k \in DOMAIN before \ {"excel_annotations"} :
                        k \in DOMAIN after /\ after[k] = before[k]
                  /\ DOMAIN after \subseteq DOMAIN before \cup {"excel_annotations"}
                  /\ rows # {} => ("excel_annotations" \in DOMAIN after
                                   /\ after.excel_annotations \in rows)
                  /\ rows = {} => after = before

\* a second application, from another table, to an entity annotated by the first;
\* another entity of the dictionary is not matched this time
C10_Witness ==
    /\ last.op = "apply_excel_annotations" /\ last.ok
    /\ \E i, j \in 1..Len(last.pre_data.entities) :
          LET before == last.pre_data.entities[i].data.properties
              after == loaded_ontologies[last.arg.ontology_name].entities[i].data.properties
          IN  /\ "excel_annotations" \in DOMAIN before
              /\ after.excel_annotations # before.excel_annotations
              /\ "owl_uri" \in DOMAIN after
              /\ loaded_ontologies[last.arg.ontology_name].entities[j].data.properties
                     = last.pre_data.entities[j].data.properties

\* ------------------------------------------------ fresh loads and integrity
\* C11: a fresh load puts in place of the current graph one built from the
\* ingestion dictionary, with the dictionary's identifiers as ids: after it the
\* entity ids of the graph are the keys of the dictionary's entities and the
\* relationship ids are the keys of its relationships.
C11_FreshLoadKeepsDictionaryIds ==
    (last.op = "load_ontology" /\ last.mode = "fresh")
        => LET es == last.arg.graph_data.entities
               rs == last.arg.graph_data.relationships
           IN  /\ {Canon(id) : id \in DOMAIN entities} = {es[i].key : i \in 1..Len(es)}
               /\ {Canon(id) : id \in DOMAIN relationships} = {rs[i].key : i \in 1..Len(rs)}
               /\ loaded_ontologies[last.arg.ontology_name] = last.arg.graph_data

\* a fresh load of a dictionary with entities and a relationship
C11_Witness ==
    /\ last.op = "load_ontology" /\ last.mode = "fresh"
    /\ DOMAIN relationships # {}
    /\ Cardinality(DOMAIN entities) >= 2

\* C12: check_integrity reports no dangling relationship on a graph built by a
\* fresh load of well-formed ingestion data, and still none after any sequence of
\* add_entity, add_relationship and merge operations: the source_id and the
\* target_id of every stored relationship are ids of stored entities.
C12_NoDanglingRelationship ==
    /\ AdapterCheckIntegrity(TheWorld).dangling_count = 0
    /\ AdapterCheckIntegrity(TheWorld).valid
    /\ \A r \in DOMAIN relationships :
          /\ relationships[r].source_id \in DOMAIN entities
          /\ relationships[r].target_id \in DOMAIN entities

\* a graph with a relationship, after a fresh load, a merge and an
\* add_relationship call that named an absent endpoint
C12_Witness ==
    /\ last.op = "add_relationship" /\ ~last.ok
    /\ last.arg.target_id \notin DOMAIN entities
    /\ Cardinality(DOMAIN loaded_ontologies) = 2
    /\ DOMAIN relationships # {}

\* ------------------------------------------------------------------ lookups
\* C13: the lookups get_entity, find_entities, get_relationships, get_neighbors
\* and search_entities raise for no argument, an id outside the graph and a type
\* string with nothing stored under it included; they return an empty sequence or
\* an absent result.
C13_LookupsNeverRaise ==
    last.op \in {"get_entity", "find_entities", "get_relationships", "get_neighbors",
                 "search_entities"}
        => last.ok

\* C14: query_patient_info of a Patient returns that patient, as diseases exactly
\* the targets of its outgoing hasDisease relationships and as treatments exactly
\* the targets of its outgoing receivesTreatment relationships; incoming edges
\* and edges of other types add nothing.
C14_PatientInfoFollowsOutgoingEdges ==
    (/\ last.op = "query_patient_info"
     /\ last.arg.patient_id \in DOMAIN entities
     /\ entities[last.arg.patient_id].entity_type = "Patient")
        => LET p == last.arg.patient_id
               Out(ty) == {r \in DOMAIN relationships :
                              /\ relationships[r].source_id = p
                              /\ relationships[r].relationship_type = ty}
               Targets(ty) == {AdapterGetEntity(TheWorld, relationships[r].target_id) :
                                  r \in Out(ty)}
               Exactly(list, ty) ==
                   /\ {list[i] : i \in 1..Len(list)} = Targets(ty)
                   /\ Len(list) = Cardinality(Out(ty))
           IN  /\ last.ok
               /\ last.result.patient = AdapterGetEntity(TheWorld, p)
               /\ Exactly(last.result.diseases, "hasDisease")
               /\ Exactly(last.result.treatments, "receivesTreatment")

\* a patient with a disease, a treatment and an edge that is neither
C14_Witness ==
    /\ last.op = "query_patient_info" /\ last.ok
    /\ Len(last.result.diseases) = 1
    /\ Len(last.result.treatments) = 1
    /\ \E r \in DOMAIN relationships :
          /\ relationships[r].target_id = last.arg.patient_id
          /\ relationships[r].source_id # last.arg.patient_id

\* C15: query_patient_info fails with UnknownEntity when patient_id is the id of
\* no entity of the graph or of an entity whose type is not Patient, and the
\* failed call leaves the graph as it was.
C15_PatientInfoFailsForNonPatient ==
    (/\ last.op = "query_patient_info"
     /\ \/ last.arg.patient_id \notin DOMAIN last.pre.entities
        \/ last.pre.entities[last.arg.patient_id].entity_type # "Patient")
        => /\ ~last.ok
           /\ last.err = "UnknownEntity"
           /\ TheWorld = last.pre

\* the call for the id of a stored entity that is no Patient
C15_Witness ==
    /\ last.op = "query_patient_info" /\ ~last.ok
    /\ last.arg.patient_id \in DOMAIN entities
    /\ \E id \in DOMAIN entities : entities[id].entity_type = "Patient"

\* C16: find_entities(entity_type, **filters) returns exactly the entities of the
\* type (all, when no type is given) for which every filter pair matches; a filter
\* key no entity carries gives an empty result and no error.
C16_FindEntitiesExactMatch ==
    (last.op = "find_entities" /\ last.arg.entity_type \in EntityType \cup {""})
        => LET fs == last.arg.filters
               Hit(e, f) == \/ f.key = "name" /\ e.name = f.value
                            \/ /\ f.key # "name"
                               /\ f.key \in DOMAIN e.properties
                               /\ e.properties[f.key] = f.value
               wanted == {id \in DOMAIN entities :
                             /\ last.arg.entity_type \in {"", entities[id].entity_type}
                             /\ \A i \in 1..Len(fs) : Hit(entities[id], fs[i])}
           IN  /\ last.ok
               /\ {last.result[i] : i \in 1..Len(last.result)}
                      = {AdapterGetEntity(TheWorld, id) : id \in wanted}
               /\ Len(last.result) = Cardinality(wanted)

\* find_entities("Patient", name="Alice") on a graph that also has a Doctor named
\* Alice: the Patient alone is returned
C16_Witness ==
    /\ last.op = "find_entities" /\ last.ok
    /\ last.arg.entity_type = "Patient"
    /\ last.arg.filters = <<[key |-> "name", value |-> Alice]>>
    /\ Len(last.result) = 1 /\ last.result[1].name = Alice
    /\ \E id \in DOMAIN entities :
          entities[id].name = Alice /\ entities[id].entity_type = "Doctor"

\* C17: search_entities(query, entity_type) returns exactly the entities of
\* find_entities(entity_type) whose name contains the query ignoring case or one of
\* whose property values, as a lowered string, contains it; each once, in the
\* order of find_entities.
C17_SearchIsFilteredFindEntities ==
    (last.op = "search_entities" /\ last.arg.entity_type \in EntityType \cup {""})
        => LET all == AdapterFindEntities(TheWorld, last.arg.entity_type, <<>>).result
               q == Lower(last.arg.query)
               Hit(e) == \/ Contains(q, Lower(e.name))
                         \/ \E k \in DOMAIN e.properties :
                               Contains(q, Lower(StrChars(e.properties[k])))
               At(d) == CHOOSE i \in 1..Len(all) : all[i] = d
           IN  /\ last.ok
               /\ \A i \in 1..Len(all) :
                     Hit(all[i]) <=> \E j \in 1..Len(last.result) : last.result[j] = all[i]
               /\ \A j \in 1..Len(last.result) :
                     \E i \in 1..Len(all) : all[i] = last.result[j]
               /\ \A j, k \in 1..Len(last.result) :
                     j < k => At(last.result[j]) < At(last.result[k])

\* search_entities("fl") finds an entity named Flu none of whose property values
\* holds the query, and passes over an entity that matches nowhere
C17_Witness ==
    /\ last.op = "search_entities" /\ last.ok
    /\ last.arg.query = <<"f","l">>
    /\ \E j \in 1..Len(last.result) :
          /\ last.result[j].name = Flu
          /\ DOMAIN last.result[j].properties = {"severity"}
    /\ Len(last.result) < Cardinality(DOMAIN entities)

\* ------------------------------------------------------- types and multigraph
\* C18: a relationship type string of ingestion that is no member of the
\* relationship enumeration is passed through: a relationship record with such a
\* type whose endpoints both resolve is in the graph after the ingestion, fresh
\* load or merge, with that string as its type.
C18_UnrecognizedRelationshipTypeKept ==
    (last.op = "merge" /\ last.ok)
        => \A i \in 1..Len(last.arg.relationships) :
              LET d == last.arg.relationships[i].data
              IN  (/\ {"source_id", "target_id", "type"} \subseteq DOMAIN d
                   /\ UUIDParse(d.source_id).ok /\ UUIDParse(d.target_id).ok
                   /\ UUIDParse(d.source_id).id \in DOMAIN entities
                   /\ UUIDParse(d.target_id).id \in DOMAIN entities
                   /\ d.type \notin RelationshipType)
                      => \E r \in DOMAIN relationships :
                            relationships[r] = Relationship(UUIDParse(d.source_id).id,
                                                            UUIDParse(d.target_id).id,
                                                            d.type)

\* C19: add_entity with an entity_type string outside the enumeration {Patient,
\* Disease, Treatment, Doctor, Facility, Entity} fails with the invalid-type error
\* (the ValueError of the enumeration) and leaves the entity store as it was.
C19_AddEntityRejectsUnknownType ==
    (last.op = "add_entity" /\ last.arg.entity_type \notin EntityType)
        => /\ ~last.ok
           /\ last.err = "ValueError"
           /\ entities = last.pre.entities
           /\ Cardinality(DOMAIN entities) = Cardinality(DOMAIN last.pre.entities)

\* the rejected call on a graph that holds entities
C19_Witness ==
    /\ last.op = "add_entity" /\ ~last.ok
    /\ last.arg.entity_type = "Ward"
    /\ DOMAIN entities # {}

C21_GetRelationshipsFollowsDirection ==
    (last.op = "get_relationships" /\ last.ok) =>
        LET rels == last.pre.relationships
            a    == last.arg
            want == {r \in DOMAIN rels :
                        /\ CASE a.direction = "incoming" -> rels[r].target_id = a.entity_id
                              [] a.direction = "outgoing" -> rels[r].source_id = a.entity_id
                              [] OTHER -> \/ rels[r].target_id = a.entity_id
                                          \/ rels[r].source_id = a.entity_id
                        /\ a.relationship_type = ""
                              \/ rels[r].relationship_type = a.relationship_type}
        IN  /\ {last.result[i] : i \in 1..Len(last.result)}
                  = {relationship_to_dict(r, rels[r]) : r \in want}
            /\ Len(last.result) = Cardinality(want)

\* an incoming query with a type, of an entity that also has an outgoing edge of
\* that type and an incoming edge of another type, returned a relationship
C21_Witness ==
    /\ last.op = "get_relationships" /\ last.ok
    /\ last.arg.direction = "incoming" /\ last.arg.relationship_type = "hasDisease"
    /\ Len(last.result) > 0
    /\ \E r \in DOMAIN last.pre.relationships :
          /\ last.pre.relationships[r].source_id = last.arg.entity_id
          /\ last.pre.relationships[r].target_id # last.arg.entity_id
          /\ last.pre.relationships[r].relationship_type = "hasDisease"
    /\ \E r \in DOMAIN last.pre.relationships :
          /\ last.pre.relationships[r].target_id = last.arg.entity_id
          /\ last.pre.relationships[r].relationship_type # "hasDisease"

\* ---------------------------------------------------------------- statistics
RECURSIVE SumOver(_, _)
SumOver(f, S) ==
    IF S = {} THEN 0
    ELSE LET k == CHOOSE x \in S : TRUE IN f[k] + SumOver(f, S \ {k})

\* C22: every get_statistics result agrees with the stores: total_entities is the
\* number of stored entities and the sum of entities_by_type, total_relationships is
\* the number of stored relationships, and loaded_ontologies holds each registered
\* name once; the registered names grow by exactly the name of each load_ontology
\* call and by nothing else.
C22_StatisticsAgreeWithStores ==
    /\ [](last.op = "get_statistics" =>
            LET st == last.result
                names == {st.loaded_ontologies[i] : i \in 1..Len(st.loaded_ontologies)}
            IN  /\ st.total_entities = Cardinality(DOMAIN entities)
                /\ st.total_entities = SumOver(st.entities_by_type,
                                               DOMAIN st.entities_by_type)
                /\ st.total_relationships = Cardinality(DOMAIN relationships)
                /\ names = DOMAIN loaded_ontologies
                /\ Len(st.loaded_ontologies) = Cardinality(names))
    /\ [][DOMAIN loaded_ontologies' =
              IF last'.op = "load_ontology"
              THEN DOMAIN loaded_ontologies \cup {last'.arg.ontology_name}
              ELSE DOMAIN loaded_ontologies]_vars

\* statistics were taken of a graph with entities of two types and a relationship,
\* after two ontologies were loaded
C22_Witness ==
    /\ last.op = "get_statistics"
    /\ Len(last.result.loaded_ontologies) = 2
    /\ Cardinality(DOMAIN last.result.entities_by_type) >= 2
    /\ last.result.total_relationships >= 1

\* ----------------------------------------------------- annotation matching
\* C23: an application of an annotation table gives each entity of the dictionary
\* the row under the key equal to its name when the table has one, otherwise the
\* row under the first key of the table equal to its name ignoring case, and leaves
\* the properties of an entity with neither as they were.
C23_ExactNameBeforeCaseInsensitive ==
    (last.op = "apply_excel_annotations" /\ last.ok)
        => \A i \in 1..Len(last.pre_data.entities) :
              LET name == last.pre_data.entities[i].data.name
                  table == last.annotations
                  before == last.pre_data.entities[i].data.properties
                  after == loaded_ontologies[last.arg.ontology_name].entities[i].data.properties
                  exact == {j \in 1..Len(table) : table[j].key = name}
                  loose == {j \in 1..Len(table) : Lower(table[j].key) = Lower(name)}
              IN  IF exact # {}
                  THEN \A j \in exact : after.excel_annotations = table[j].row
                  ELSE IF loose # {}
                  THEN \A j \in loose :
                          (\A k \in loose : j <= k) => after.excel_annotations = table[j].row
                  ELSE after = before

\* a table was applied in which a key equal to an entity's name ignoring case comes
\* before the key equal to it, and in which two keys equal another entity's name
\* only ignoring case
C23_Witness ==
    /\ last.op = "apply_excel_annotations" /\ last.ok
    /\ \E i, i2 \in 1..Len(last.pre_data.entities) :
          LET name == last.pre_data.entities[i].data.name
              name2 == last.pre_data.entities[i2].data.name
              table == last.annotations
          IN  /\ \E j, k \in 1..Len(table) :
                    /\ j < k /\ table[k].key = name
                    /\ table[j].key # name /\ Lower(table[j].key) = Lower(name)
                    /\ table[j].row # table[k].row
              /\ \A j \in 1..Len(table) : table[j].key # name2
              /\ Cardinality({j \in 1..Len(table) :
                                 Lower(table[j].key) = Lower(name2)}) = 2

C25_LoadModeFollowsLiveGraph ==
    [][last'.op = "load_ontology" =>
          LET d == last'.arg.graph_data
              nm == last'.arg.ontology_name
          IN  /\ nm \in DOMAIN loaded_ontologies' /\ loaded_ontologies'[nm] = d
              /\ IF ~adapter \/ DOMAIN entities = {}
                 THEN /\ last'.ok /\ last'.mode = "fresh"
                      /\ DOMAIN entities'
                            = {UUIDParse(d.entities[i].key).id : i \in 1..Len(d.entities)}
                      /\ DOMAIN relationships'
                            = {UUIDParse(d.relationships[i].key).id :
                                 i \in 1..Len(d.relationships)}
                 ELSE /\ last'.mode = "merge"
                      /\ \A id \in DOMAIN entities :
                            id \in DOMAIN entities' /\ entities'[id] = entities[id]
                      /\ \A id \in DOMAIN relationships :
                            id \in DOMAIN relationships'
                            /\ relationships'[id] = relationships[id]
                      /\ Cardinality(DOMAIN entities')
                            = Cardinality(DOMAIN entities) + Len(d.entities)]_vars

\* a second ontology was merged into the graph that the fresh load of the first built
C25_Witness ==
    /\ last.op = "load_ontology" /\ last.mode = "merge" /\ last.ok
    /\ Cardinality(DOMAIN loaded_ontologies) = 2
    /\ Cardinality(DOMAIN entities) > Cardinality(DOMAIN last.pre.entities)
    /\ \E i \in 1..Len(last.arg.graph_data.entities) :
          UUIDParse(last.arg.graph_data.entities[i].key).id \notin DOMAIN entities

\* ------------------------------------------- relationships of a merged dictionary
\* C26: after load_ontology merged a dictionary into a graph that holds entities,
\* each relationship record of the dictionary whose source_id and target_id are keys
\* of entity records of that dictionary is in the graph: a relationship of the
\* record's type, added by the call, from a live entity that carries the source
\* record's name and type to one that carries the target record's.
C26_MergedRelationshipsConnectMergedEntities ==
    (last.op = "load_ontology" /\ last.mode = "merge" /\ last.ok)
        => LET d == last.arg.graph_data
               EntityRecordOf(k) == {i \in 1..Len(d.entities) : d.entities[i].key = k}
               Carries(id, i) ==
                   /\ id \in DOMAIN entities
                   /\ entities[id].name = d.entities[i].data.name
                   /\ entities[id].entity_type = d.entities[i].data.type
           IN  \A j \in 1..Len(d.relationships) :
                  LET rec == d.relationships[j].data
                  IN  \A si \in EntityRecordOf(rec.source_id),
                         ti \in EntityRecordOf(rec.target_id) :
                         \E r \in DOMAIN relationships \ DOMAIN last.pre.relationships :
                            /\ relationships[r].relationship_type = rec.type
                            /\ Carries(relationships[r].source_id, si)
                            /\ Carries(relationships[r].target_id, ti)

\* ------------------------------------------------------ the loader's output
\* C27: in what convert_to_graph_data returns, the source_id and the target_id of
\* every relationship are keys of its entities, and there is one relationship for
\* each asserted target that is the name of an individual of the document and none
\* for any other target.
C27_ConvertedRelationshipsResolve ==
    last.op = "convert_to_graph_data" =>
        LET d == last.result
            inds == last.file.individuals
            keys == {d.entities[i].key : i \in 1..Len(d.entities)}
            names == {inds[i].name : i \in 1..Len(inds)}
            asserted == {<<i, j, k>> \in (1..Len(inds)) \X (1..2) \X (1..2) :
                            /\ j <= Len(inds[i].property_assertions)
                            /\ k <= Len(inds[i].property_assertions[j].targets)
                            /\ inds[i].property_assertions[j].targets[k] \in names}
        IN  /\ \A r \in 1..Len(d.relationships) :
                  /\ d.relationships[r].data.source_id \in keys
                  /\ d.relationships[r].data.target_id \in keys
            /\ Len(d.relationships) = Cardinality(asserted)

\* a document was converted in which two individuals carry one name, one assertion
\* gave a relationship and another, to a name of no individual, gave none
C27_Witness ==
    /\ last.op = "convert_to_graph_data"
    /\ Len(last.result.relationships) = 1
    /\ Len(last.file.individuals) = 2
    /\ last.file.individuals[1].name = last.file.individuals[2].name
    /\ \E i \in 1..2 :
          \E j \in 1..Len(last.file.individuals[i].property_assertions) :
             \E k \in 1..Len(last.file.individuals[i].property_assertions[j].targets) :
                last.file.individuals[i].property_assertions[j].targets[k]
                    \notin {last.file.individuals[1].name}

\* the type the keyword lists give a class name: the first list, in the order
\* Patient, Disease, Treatment, Doctor, Facility, with a word in the lowered name
KeywordType(class_name) ==
    LET l == Lower(class_name)
    IN  IF Contains(<<"p","a","t","i","e","n","t">>, l) THEN "Patient"
        ELSE IF Contains(<<"d","i","s","e","a","s","e">>, l) \/ Contains(<<"d","i","a","g","n","o","s","i","s">>, l) THEN "Disease"
        ELSE IF \/ Contains(<<"t","r","e","a","t","m","e","n","t">>, l)
                \/ Contains(<<"t","h","e","r","a","p","y">>, l)
                \/ Contains(<<"m","e","d","i","c","a","t","i","o","n">>, l) THEN "Treatment"
        ELSE IF Contains(<<"d","o","c","t","o","r">>, l) \/ Contains(<<"p","h","y","s","i","c","i","a","n">>, l) THEN "Doctor"
        ELSE IF Contains(<<"f","a","c","i","l","i","t","y">>, l) \/ Contains(<<"h","o","s","p","i","t","a","l">>, l) THEN "Facility"
        ELSE "Entity"

\* C28: every entity record of what convert_to_graph_data returns, made from an
\* individual or from a class, has as type one of Patient, Disease, Treatment,
\* Doctor, Facility, Entity, namely the one of the first keyword list that matches
\* the individual's class or the class's name, and add_entity accepts the record.
C28_LoaderTypesAreEnumerationNames ==
    last.op = "convert_to_graph_data" =>
        LET d == last.result
            inds == last.file.individuals
        IN  \A i \in 1..Len(d.entities) :
               LET rec == d.entities[i].data
               IN  /\ rec.type \in {"Patient", "Disease", "Treatment",
                                     "Doctor", "Facility", "Entity"}
                   /\ rec.type = IF i <= Len(inds) THEN KeywordType(inds[i].type)
                                  ELSE KeywordType(rec.name)
                   /\ AdapterAddEntity(World(EmptyDict, EmptyDict, 1),
                                       rec.type, rec.name, rec.properties).ok

\* a document was converted that has a class whose name holds words of two keyword
\* lists, and an individual of a class that is in no list
C28_Witness ==
    /\ last.op = "convert_to_graph_data"
    /\ \E i \in 1..Len(last.result.entities) :
          /\ i > Len(last.file.individuals)
          /\ last.result.entities[i].data.name = <<"H","o","s","p","i","t","a","l","D","o","c","t","o","r">>
          /\ last.result.entities[i].data.type = "Doctor"
    /\ \E i \in 1..Len(last.file.individuals) :
          last.result.entities[i].data.type = "Entity"

\* ------------------------------------------------------------ the tool registry
\* C29: the registry holds one tool per name: after register_tool(t) get_tool of
\* t's name is t, whatever tool had the name before, and the other names are as they
\* were; unregister_tool(name) returns True exactly when the name had a tool, and
\* after it get_tool(name) is None, list_tools has no such name, and the other
\* names are as they were; list_tools has every registered name once.
C29_RegistryKeepsOneToolPerName ==
    /\ last.op = "register_tool" =>
          /\ get_tool(tools, last.arg.name) = last.arg
          /\ DOMAIN tools = DOMAIN last.pre \cup {last.arg.name}
          /\ \A n \in DOMAIN last.pre \ {last.arg.name} : tools[n] = last.pre[n]
    /\ last.op = "unregister_tool" =>
          /\ last.result = (last.arg \in DOMAIN last.pre)
          /\ get_tool(tools, last.arg) = NoneValue
          /\ \A i \in 1..Len(KeysList(DOMAIN tools)) : KeysList(DOMAIN tools)[i] # last.arg
          /\ DOMAIN tools = DOMAIN last.pre \ {last.arg}
          /\ \A n \in DOMAIN tools : tools[n] = last.pre[n]
    /\ last.op = "list_tools" =>
          /\ {last.result[i] : i \in 1..Len(last.result)} = DOMAIN tools
          /\ Len(last.result) = Cardinality(DOMAIN tools)
    /\ last.op = "get_tool" =>
          last.result = IF last.arg \in DOMAIN tools THEN tools[last.arg] ELSE NoneValue

\* a tool was registered under a name that had another tool, next to a tool of
\* another name
C29_Witness ==
    /\ last.op = "register_tool"
    /\ last.arg.name \in DOMAIN last.pre
    /\ last.pre[last.arg.name] # last.arg
    /\ Cardinality(DOMAIN tools) = 2

====
